---- MODULE Spec2Model ----
(***************************************************************************)
(* The polling / pagination / cursor engine of the API event shipper:      *)
(*   - AuthApi (src/src/auth_api.py): the paginating fetcher, its filter   *)
(*     list and the start-date cursor;                                     *)
(*   - ApisManager (src/src/apis_manager.py): one scheduling loop per      *)
(*     source, the poll-and-ship cycle, its error classification and the   *)
(*     shutdown routine.                                                   *)
(* Text values (timestamps, URLs, filter values) are sequences of string   *)
(* tokens, so that formatting, parsing and quoting are real conversions.   *)
(***************************************************************************)
EXTENDS Integers, Sequences, FiniteSets, TLC

\* ------------------------------------------------------------------ bounds

\* Non-empty pages the upstream serves within one cycle (empty pages are
\* not limited).
MaxPages == 2

\* The clock of the DockerHub source runs for MaxNow minutes.
MaxNow == 5

\* ---------------------------------------------------------- program constants

\* auth_api.py:87  total_events_num >= 2500
EventsCap == 2500

\* ------------------------------------------------------------------ values

\* Python's None for text values (a text is a non-empty token sequence).
None == <<>>

IsNone(x) == Len(x) = 0

\* The configured sources (ApisManager.apis) and, in the same order, their
\* scheduling threads (ApisManager.threads).
threads == <<"a1", "a2">>

Apis == {threads[i] : i \in 1..Len(threads)}

\* Config of a source: base url and the key of the start-date filter.
url(a) == "https://" \o a \o "/events"

start_date_name == "from"

\* ------------------------------------------------------------- date and time

DateTime(d, h, m, s) == [day |-> d, hh |-> h, mm |-> m, ss |-> s]

\* datetime comparison (last_date < event_date_datetime)
DateLess(x, y) ==
    \/ x.day < y.day
    \/ x.day = y.day /\ x.hh < y.hh
    \/ x.day = y.day /\ x.hh = y.hh /\ x.mm < y.mm
    \/ x.day = y.day /\ x.hh = y.hh /\ x.mm = y.mm /\ x.ss < y.ss

Pad2(n) == IF n < 10 THEN "0" \o ToString(n) ELSE ToString(n)

\* str(datetime): "2024-01-DD HH:MM:SS"
Str(dt) ==
    << "2024-01-" \o Pad2(dt.day), " ", Pad2(dt.hh), ":", Pad2(dt.mm), ":", Pad2(dt.ss) >>

\* What dateutil's parser.parse accepts here: date, a blank or a T, time.
Parsable(s) ==
    /\ Len(s) = 7
    /\ \E d \in 1..31 : s[1] = "2024-01-" \o Pad2(d)
    /\ s[2] \in {" ", "T"}
    /\ \E h \in 0..23 : s[3] = Pad2(h)
    /\ s[4] = ":"
    /\ \E m \in 0..59 : s[5] = Pad2(m)
    /\ s[6] = ":"
    /\ \E x \in 0..59 : s[7] = Pad2(x)

\* parser.parse(s) of a parsable text.
Parse(s) ==
    DateTime(CHOOSE d \in 1..31 : s[1] = "2024-01-" \o Pad2(d),
             CHOOSE h \in 0..23 : s[3] = Pad2(h),
             CHOOSE m \in 0..59 : s[5] = Pad2(m),
             CHOOSE x \in 0..59 : s[7] = Pad2(x))

\* dt + timedelta(seconds=1)
AddSecondNoCarry(dt) == [dt EXCEPT !.ss = (dt.ss + 1) % 60]

AddSecond(dt) ==
    IF dt.ss < 59 THEN [dt EXCEPT !.ss = dt.ss + 1]
    ELSE IF dt.mm < 59 THEN [dt EXCEPT !.ss = 0, !.mm = dt.mm + 1]
    ELSE IF dt.hh < 23 THEN [dt EXCEPT !.ss = 0, !.mm = 0, !.hh = dt.hh + 1]
    ELSE [dt EXCEPT !.ss = 0, !.mm = 0, !.hh = 0, !.day = dt.day + 1]

\* s.replace(' ', 'T')
ReplaceBlank(s) == [i \in 1..Len(s) |-> IF s[i] = " " THEN "T" ELSE s[i]]

\* urllib.parse.quote(s): ':' and ' ' are percent-encoded, digits, letters
\* and '-' are kept.
Quote(s) ==
    [i \in 1..Len(s) |-> IF s[i] = ":" THEN "%3A" ELSE IF s[i] = " " THEN "%20" ELSE s[i]]

\* ------------------------------------------------------------------ filters

\* ApiFilter(key, value)
ApiFilter(k, v) == [key |-> k, value |-> v]

\* The filter lists a source may be configured with: none, the start-date
\* filter alone, and the start-date filter after another filter.
ConfiguredFilters ==
    { << >>,
      << ApiFilter(start_date_name, ReplaceBlank(Str(DateTime(1, 0, 0, 0)))) >>,
      << ApiFilter("limit", <<"100">>),
         ApiFilter(start_date_name, ReplaceBlank(Str(DateTime(1, 0, 0, 0)))) >> }

\* AuthApi._build_api_url
RECURSIVE build_from(_, _, _)
build_from(fs, i, api_url) ==
    IF i > Len(fs) THEN api_url
    ELSE build_from(fs, i + 1,
                    api_url \o <<fs[i].key, "=">> \o fs[i].value
                            \o (IF Len(fs) - i > 0 THEN <<"&">> ELSE << >>))

build_api_url(a, fs) == build_from(fs, 1, <<url(a)>>)

\* AuthApi._get_new_start_date
get_new_start_date(last_date) == Quote(ReplaceBlank(Str(AddSecond(Parse(last_date)))))

\* update_start_date_filter without the search for the start-date filter:
\* the new filter is always appended.
update_appends(fs, last_date) ==
    Append(fs, ApiFilter(start_date_name, get_new_start_date(last_date)))

\* update_start_date_filter without the test of the key: the first filter
\* of the list gets the new value whatever its key.
update_first_filter(fs, last_date) ==
    IF Len(fs) > 0
    THEN [fs EXCEPT ![1].value = get_new_start_date(last_date)]
    ELSE Append(fs, ApiFilter(start_date_name, get_new_start_date(last_date)))

\* AuthApi.update_start_date_filter: the first filter with the start-date
\* key gets the new value; without one, a new filter is appended.
update_start_date_filter(fs, last_date) ==
    LET new_start_date == get_new_start_date(last_date)
        hits == {i \in 1..Len(fs) : fs[i].key = start_date_name}
    IN IF hits # {}
       THEN LET first == CHOOSE i \in hits : \A j \in hits : i <= j
            IN [fs EXCEPT ![first].value = new_start_date]
       ELSE Append(fs, ApiFilter(start_date_name, new_start_date))

\* AuthApi.get_last_start_date
get_last_start_date(fs) ==
    LET hits == {i \in 1..Len(fs) : fs[i].key = start_date_name}
    IN IF hits # {}
       THEN fs[CHOOSE i \in hits : \A j \in hits : i <= j].value
       ELSE None

\* --------------------------------------------------------------- exceptions

Exc(t, s) == [type |-> t, status |-> s]

NoExc == Exc("none", 0)

\* --------------------------------------------------------- upstream responses

\* Events of the upstream API. A list of events is kept as a sequence of
\* blocks: Events(p, lo, hi, ts) stands for the events lo..hi of page p, in
\* this order, each with the timestamp text ts under the date path (None:
\* the date path yields nothing for them). An event alone is a block of one.
Events(p, lo, hi, ts) == [page |-> p, lo |-> lo, hi |-> hi, ts |-> ts]

\* len(events)
RECURSIVE len(_)
len(events) ==
    IF Len(events) = 0 THEN 0
    ELSE (Head(events).hi - Head(events).lo + 1) + len(Tail(events))

\* json.dumps(event), for the events of a block
JsonDumps(e) == <<"json", e>>

\* Timestamps as the upstream writes them (ISO, T separator).
Iso(dt) == ReplaceBlank(Str(dt))

\* Pages (data arrays) of the p-th non-empty page of a cycle.
SmallPages(p) ==
    { << Events(p, 1, 1, Iso(DateTime(1, 23, 59, 59))),
         Events(p, 2, 2, Iso(DateTime(1, 23, 59, 58))) >>,
      << Events(p, 1, 1, Iso(DateTime(2, 23, 59, 59))) >>,
      << Events(p, 1, 1, None) >> }

BigPageSizes == {1250, 2499}

BigPages(p) ==
    { << Events(p, 1, n - 1, Iso(DateTime(1, 10, 0, 20))),
         Events(p, n, n, Iso(DateTime(1, 10, 0, 30))) >> : n \in BigPageSizes }

\* The link a page may carry to its successor: the page fetched from the
\* first url links to page x, page x to page y, and page y back to page x.
NextUrl(a, api_url) ==
    IF api_url = <<url(a), "?page=", "x">>
    THEN <<url(a), "?page=", "y">>
    ELSE <<url(a), "?page=", "x">>

\* The environment comes in two sizes. The rich one (one source polled
\* alone) has pages of every size, every error status and every exception;
\* the plain one (all sources side by side) has one page of one event per
\* cycle among any number of empty pages, one error status, and a sink whose
\* flush raises the three kinds of error the handler tells apart.

\* HTTP statuses of a failed upstream request.
ErrorStatuses(rich) == IF rich THEN {400, 401, 403, 500} ELSE {500}

\* Exceptions requests.get raises without a response.
RequestExceptions(rich) ==
    IF rich THEN {"InvalidURL", "InvalidSchema", "ConnectionError"} ELSE {}

\* What requests.get(api_url) can end with, for the p-th non-empty page, the
\* pages being drawn from pageSet: a 200 response with a JSON body (with or
\* without the data array, with or without a next link), an error status,
\* or an exception raised without a response.
Responses(a, api_url, p, pageSet, rich) ==
    { [kind |-> "response", status |-> 200, body |-> [events |-> ev, next |-> nx]] :
        ev \in (IF p < (IF rich THEN MaxPages ELSE 1) THEN pageSet \cup {<< >>} ELSE {<< >>}),
        nx \in {NextUrl(a, api_url), None} }
    \cup { [kind |-> "response", status |-> 200, body |-> [next |-> None]] : x \in {rich} \ {FALSE} }
    \cup { [kind |-> "response", status |-> s, body |-> [next |-> None]] :
             s \in ErrorStatuses(rich) }
    \cup { [kind |-> "exception", status |-> 0, body |-> [next |-> None], exc |-> t] :
             t \in RequestExceptions(rich) }

\* ------------------------------------------------------------------ AuthApi

\* The configured JSON paths of a source.
json_paths == [next_url |-> "next", data |-> "events", data_date |-> "ts"]

\* parse(json_path).find(data): the list of matches.
JsonPathFind(json_path, data) ==
    IF json_path \in DOMAIN data THEN <<data[json_path]>> ELSE << >>

\* _get_response_from_api without the 400/401 classification: the HTTPError
\* is re-raised as it is.
get_response_unclassified(r) ==
    IF r.kind = "exception" THEN Exc(r.exc, 0)
    ELSE IF r.status >= 400 THEN Exc("HTTPError", r.status)
    ELSE NoExc

\* AuthApi._get_response_from_api: the exception it raises for what
\* requests.get ended with (NoExc: the response is returned).
get_response_from_api(r) ==
    IF r.kind = "exception" THEN Exc(r.exc, 0)
    ELSE IF r.status >= 400
         THEN IF r.status = 400 \/ r.status = 401
              THEN Exc("ApiError", 0)
              ELSE Exc("HTTPError", r.status)
         ELSE NoExc

\* AuthApi._get_data_from_api
get_data_from_api(r) ==
    LET e == get_response_from_api(r)
        nomatch == [raised |-> e, next_url |-> None, events |-> << >>, events_num |-> 0]
    IN IF e # NoExc THEN nomatch
       ELSE LET json_data == r.body
                nx == JsonPathFind(json_paths.next_url, json_data)
                ev == JsonPathFind(json_paths.data, json_data)
            IN IF Len(ev) = 0
               THEN [nomatch EXCEPT !.raised = Exc("ApiError", 0)]
               ELSE [raised |-> NoExc,
                     next_url |-> IF Len(nx) = 0 THEN None ELSE nx[1],
                     events |-> ev[1],
                     events_num |-> len(ev[1])]

\* The loop test with > for >=.
StopPagingAbove(next_url, total_events_num) ==
    IsNone(next_url) \/ total_events_num > EventsCap

\* The loop test of AuthApi._get_total_data_from_api: stop after this page.
StopPaging(next_url, total_events_num) ==
    IsNone(next_url) \/ total_events_num >= EventsCap

\* _get_last_date_in_data without the test for a missing date: events with
\* no date are skipped (str(None) when no event has one).
get_last_date_skipping(data) ==
    LET stamps == {data[i].ts : i \in 1..Len(data)} \ {None}
        dates == {Parse(t) : t \in stamps}
        last_date == CHOOSE d \in dates : \A e \in dates : ~DateLess(d, e)
    IN [raised |-> NoExc, value |-> IF stamps = {} THEN <<"None">> ELSE Str(last_date)]

\* AuthApi._get_last_date_in_data: the loop raises at the first event whose
\* date is missing (ApiError) or is no date (ParserError); otherwise it
\* returns str() of the greatest parsed date.  The loop is written here by
\* its result, over the set of distinct timestamps of the data.
get_last_date_in_data(data) ==
    LET stamps == {data[i].ts : i \in 1..Len(data)}   \* one per block
        bad == {t \in stamps : IsNone(t) \/ ~Parsable(t)}
        dates == {Parse(t) : t \in stamps}
        last_date == CHOOSE d \in dates : \A e \in dates : ~DateLess(d, e)
    IN IF bad # {}
       THEN LET first == CHOOSE i \in 1..Len(data) :
                             /\ data[i].ts \in bad
                             /\ \A j \in 1..(i - 1) : data[j].ts \notin bad
            IN [raised |-> IF IsNone(data[first].ts)
                           THEN Exc("ApiError", 0) ELSE Exc("ParserError", 0),
                value |-> None]
       ELSE [raised |-> NoExc, value |-> Str(last_date)]

\* -------------------------------------------------------------- ApisManager

\* The except clauses without the status test: no HTTPError is fatal.
HandleNo401(e) ==
    IF e = NoExc THEN [kill |-> FALSE, return |-> FALSE, sent |-> TRUE]
    ELSE IF e.type \in {"InvalidURL", "InvalidSchema"}
         THEN [kill |-> TRUE, return |-> TRUE, sent |-> TRUE]
    ELSE IF e.type = "HTTPError" THEN [kill |-> FALSE, return |-> FALSE, sent |-> TRUE]
    ELSE [kill |-> FALSE, return |-> FALSE, sent |-> FALSE]

\* The except clauses of ApisManager.__send_data_to_logzio, for the
\* exception e raised in the try block (NoExc: none was raised):
\*   kill: os.kill(os.getpid(), SIGTERM); return: the early return;
\*   sent: is_data_sent_successfully after the clause.
Handle(e) ==
    IF e = NoExc THEN [kill |-> FALSE, return |-> FALSE, sent |-> TRUE]
    ELSE IF e.type = "InvalidURL" THEN [kill |-> TRUE, return |-> TRUE, sent |-> TRUE]
    ELSE IF e.type = "InvalidSchema" THEN [kill |-> TRUE, return |-> TRUE, sent |-> TRUE]
    ELSE IF e.type = "HTTPError"
         THEN IF e.status = 401
              THEN [kill |-> TRUE, return |-> TRUE, sent |-> TRUE]
              ELSE [kill |-> FALSE, return |-> FALSE, sent |-> TRUE]
    ELSE [kill |-> FALSE, return |-> FALSE, sent |-> FALSE]

\* The test without is_data_exist.
ShouldUpdateWhenSent(exist, sent) == sent

\* if is_data_exist and is_data_sent_successfully (apis_manager.py:269)
ShouldUpdate(exist, sent) == exist /\ sent

\* What the sink (LogzioShipper) may raise from send_to_logzio.
SinkErrors(rich) ==
    { Exc("HTTPError", 401), Exc("HTTPError", 500), Exc("ConnectionError", 0) }
    \cup (IF rich THEN {Exc("InvalidURL", 0), Exc("InvalidSchema", 0)} ELSE {})

\* -------------------------------------------------------------------- state

VARIABLES
    event,                   \* ApisManager.event (threading.Event) is set
    sigterm,                 \* a SIGTERM is pending for the process
    sigint,                  \* a SIGINT is pending for the process
    mainPc,                  \* main thread: "sigwait", "exit_gracefully", "join", "done";
                             \* "terminated" once the process is killed
    joined,                  \* threads of ApisManager.threads joined so far
    pc,                      \* per source: "start", "fetch", "deliver", "flush", "wait", "exited";
                             \* "dead" once the process is killed
    filters,                 \* AuthApi._filters
    current_data_last_date,  \* AuthApi._current_data_last_date
    api_url,                 \* api_url of _get_total_data_from_api
    total_events,            \* total_events of _get_total_data_from_api / fetch_data
    total_events_num,        \* total_events_num of _get_total_data_from_api
    is_data_exist,           \* is_data_exist of __send_data_to_logzio
    cyc,                     \* per source: the record of its current (or last) cycle
    jwt_token,               \* DockerHub._jwt_token
    token_expiry,            \* DockerHub._token_expiry (minutes on the clock; None: unset)
    headers,                 \* DockerHub.headers["Authorization"]
    now,                     \* datetime.now(UTC), in minutes
    tok,                     \* the current (or last) send_request call of the DockerHub source
    obs,                     \* the last call a client made on an AuthApi, and its result
    loop                     \* per source: the record of its scheduling loop

mainVars == <<event, sigint, mainPc, joined>>

apiVars == <<filters, current_data_last_date>>

fetchVars == <<api_url, total_events, total_events_num>>

\* The DockerHub source and its clock.
tokenVars == <<jwt_token, token_expiry, headers, now, tok>>

\* What the orchestrator's steps leave alone.
otherVars == <<tokenVars, obs>>

\* The orchestrator and its sources.
orchVars == <<event, sigterm, sigint, mainPc, joined, pc, filters, current_data_last_date,
              api_url, total_events, total_events_num, is_data_exist, cyc>>

vars == <<orchVars, otherVars, loop>>

\* The record of a cycle, as it starts:
\*   pages      the non-empty pages the upstream served, in order
\*   lastNext   the next link of the last page served
\*   status     the HTTP status of the last upstream response (0: none)
\*   nodata     a 200 response had nothing at the data path
\*   yielded    the texts fetch_data yielded
\*   enqueued   how many of them add_log_to_send accepted
\*   flushes    calls of send_to_logzio
\*   raised/by  the exception that left the try block and where it rose
\*   killed     os.kill(getpid, SIGTERM) was called
\*   updated    update_start_date_filter was called
\*   crashed    update_start_date_filter raised (no last date to parse)
\*   filters0   the filter list when the cycle started
\*   last0      _current_data_last_date when the cycle started
NewCycle(fs, last) ==
    [pages |-> << >>, lastNext |-> None, status |-> 0, nodata |-> FALSE, yielded |-> << >>,
     enqueued |-> 0, flushes |-> 0, raised |-> NoExc, by |-> "none",
     killed |-> FALSE, updated |-> FALSE, crashed |-> FALSE,
     filters0 |-> fs, last0 |-> last]

\* A send_request call of the DockerHub source, as it starts at clock t with
\* the cache (token, expiry):
\*   pc        "idle": no call in flight; "post": the login request is out
\*   callNow   the clock read by the cache test
\*   tok0/exp0 the cached token and expiry when the call started
\*   posted    the call issued a login request
\*   outcome   "none", "cached", "refreshed" or "failed"
\*   ret       what _get_jwt_token returned
\*   respNow   the clock read after the response
NewCall(t, token, expiry) ==
    [pc |-> "idle", callNow |-> t, tok0 |-> token, exp0 |-> expiry, posted |-> FALSE,
     outcome |-> "none", ret |-> None, respNow |-> t]

\* The calls a client made on an AuthApi, none so far:
\*   op       the last call: "none", "fetch", "update", "get"
\*   ret      what it returned
\*   raised   it raised
\*   n        update calls since fetch_data last computed a new last date (2: two or more)
\*   upd      the filter list after the last update call
\*   prevUpd  the filter list after the update call before it
NoObs == [op |-> "none", ret |-> None, raised |-> FALSE, n |-> 0, upd |-> << >>, prevUpd |-> << >>]

\* The scheduling loop of a source, as its thread is created:
\*   ran       the loop started a cycle
\*   afterSet  cycles the loop started with the event set (2: two or more)
\*   atSet     where the loop was when the event was set: "unset" (not set
\*             yet), "unstarted" (its thread had not started the first cycle),
\*             "start" (its wait had timed out), "busy" (in a cycle, in its
\*             wait, or ended)
NewLoop == [ran |-> FALSE, afterSet |-> 0, atSet |-> "unset"]

InitWith(configs) ==
    /\ jwt_token = None
    /\ token_expiry = None
    /\ headers = None
    /\ now = 0
    /\ tok = NewCall(0, None, None)
    /\ obs = NoObs
    /\ event = FALSE
    /\ sigterm = FALSE
    /\ sigint = FALSE
    /\ mainPc = "sigwait"
    /\ joined = 0
    /\ pc = [a \in Apis |-> "start"]
    /\ filters \in configs
    /\ current_data_last_date = [a \in Apis |-> None]
    /\ api_url = [a \in Apis |-> None]
    /\ total_events = [a \in Apis |-> << >>]
    /\ total_events_num = [a \in Apis |-> 0]
    /\ is_data_exist = [a \in Apis |-> FALSE]
    /\ cyc = [a \in Apis |-> NewCycle(filters[a], None)]
    /\ loop = [a \in Apis |-> NewLoop]

\* The first source configured with a start-date filter after another
\* filter, the other sources with no filter.
Init ==
    InitWith({f \in [Apis -> ConfiguredFilters] :
                /\ Len(f[threads[1]]) = 2
                /\ \A a \in Apis \ {threads[1]} : f[a] = << >>})

\* -------------------------------------------------- the poll-and-ship cycle

\* __run_scheduled_tasks: thread.start() of a cycle; __send_data_to_logzio
\* sets its flags and the first next() of fetch_data enters
\* _get_total_data_from_api, which builds the first url.
StartCycle(a) ==
    /\ pc[a] = "start"
    /\ pc' = [pc EXCEPT ![a] = "fetch"]
    /\ is_data_exist' = [is_data_exist EXCEPT ![a] = FALSE]
    /\ total_events' = [total_events EXCEPT ![a] = << >>]
    /\ total_events_num' = [total_events_num EXCEPT ![a] = 0]
    /\ api_url' = [api_url EXCEPT ![a] = build_api_url(a, filters[a])]
    /\ cyc' = [cyc EXCEPT ![a] = NewCycle(filters[a], current_data_last_date[a])]
    /\ loop' = [loop EXCEPT ![a].ran = TRUE,
                            ![a].afterSet = IF event THEN (IF @ = 0 THEN 1 ELSE 2) ELSE @]
    /\ UNCHANGED <<mainVars, sigterm, apiVars>>
    /\ UNCHANGED otherVars

\* The end of the cycle were it run in the loop's own thread (no thread per
\* cycle): the exception of the cursor update ends the loop.
FinishInLoopThread(a, e, where, exist, last, c) ==
    LET h == Handle(e)
        doUpdate == ~h.return /\ ShouldUpdate(exist, h.sent)
        crash == doUpdate /\ IsNone(last)
    IN /\ sigterm' = (sigterm \/ h.kill)
       /\ filters' = IF doUpdate /\ ~crash
                     THEN [filters EXCEPT ![a] = update_start_date_filter(filters[a], last)]
                     ELSE filters
       /\ cyc' = [cyc EXCEPT ![a] = [c EXCEPT !.raised = e,
                                              !.by = IF e = NoExc THEN "none" ELSE where,
                                              !.killed = h.kill,
                                              !.updated = doUpdate,
                                              !.crashed = crash]]
       /\ pc' = [pc EXCEPT ![a] = IF crash THEN "exited" ELSE "wait"]
       /\ api_url' = [api_url EXCEPT ![a] = None]
       /\ total_events' = [total_events EXCEPT ![a] = << >>]
       /\ total_events_num' = [total_events_num EXCEPT ![a] = 0]

\* The end of __send_data_to_logzio once the try block is left with
\* exception e (NoExc: normally): the except clause, then the cursor update
\* unless the clause returned; the cycle's thread ends and its locals go. c is the cycle's record so far, exist the
\* value of is_data_exist, last the source's _current_data_last_date.
Finish(a, e, where, exist, last, c) ==
    LET h == Handle(e)
        doUpdate == ~h.return /\ ShouldUpdate(exist, h.sent)
        crash == doUpdate /\ IsNone(last)
    IN /\ sigterm' = (sigterm \/ h.kill)
       /\ filters' = IF doUpdate /\ ~crash
                     THEN [filters EXCEPT ![a] = update_start_date_filter(filters[a], last)]
                     ELSE filters
       /\ cyc' = [cyc EXCEPT ![a] = [c EXCEPT !.raised = e,
                                              !.by = IF e = NoExc THEN "none" ELSE where,
                                              !.killed = h.kill,
                                              !.updated = doUpdate,
                                              !.crashed = crash]]
       /\ pc' = [pc EXCEPT ![a] = "wait"]
       /\ api_url' = [api_url EXCEPT ![a] = None]
       /\ total_events' = [total_events EXCEPT ![a] = << >>]
       /\ total_events_num' = [total_events_num EXCEPT ![a] = 0]

\* The pages the upstream may serve as the p-th non-empty page.
PageSet(p, rich) ==
    IF rich THEN SmallPages(p) \cup BigPages(p)
    ELSE { << Events(p, 1, 1, Iso(DateTime(2, 23, 59, 59))) >> }

\* One round of the loop of _get_total_data_from_api: a request, and either
\* the exception leaves fetch_data (no event was yielded yet) or the page is
\* accumulated and the loop test decides whether to follow the next link.
FetchPage(a, rich) ==
    /\ pc[a] = "fetch"
    /\ \E r \in Responses(a, api_url[a], Len(cyc[a].pages),
                         PageSet(Len(cyc[a].pages) + 1, rich), rich) :
        LET d == get_data_from_api(r)
            c == [cyc[a] EXCEPT !.status = r.status,
                                !.nodata = r.status = 200 /\ json_paths.data \notin DOMAIN r.body,
                                !.lastNext = d.next_url,
                                !.pages = IF d.events_num > 0 THEN Append(@, d.events) ELSE @]
            num == total_events_num[a] + d.events_num
        IN IF d.raised # NoExc
           THEN /\ Finish(a, d.raised, "fetch", is_data_exist[a], current_data_last_date[a], c)
                /\ UNCHANGED current_data_last_date
           ELSE /\ total_events' = [total_events EXCEPT ![a] = @ \o d.events]
                /\ total_events_num' = [total_events_num EXCEPT ![a] = num]
                /\ cyc' = [cyc EXCEPT ![a] = c]
                /\ IF StopPaging(d.next_url, num)
                   THEN /\ pc' = [pc EXCEPT ![a] = "deliver"]
                        /\ UNCHANGED api_url
                   ELSE /\ api_url' = [api_url EXCEPT ![a] = d.next_url]
                        /\ UNCHANGED pc
                /\ UNCHANGED <<sigterm, apiVars>>
    /\ UNCHANGED <<mainVars, is_data_exist>>
    /\ UNCHANGED <<otherVars, loop>>

\* What the sink may raise from add_log_to_send (when a full bulk makes it
\* send): in the rich environment, whatever send_to_logzio may raise.
EnqueueErrors(rich) == IF rich THEN SinkErrors(rich) ELSE {}

\* Where add_log_to_send may raise among n events: at the last one.
FailPoints(n) == {k \in {n} : 1 <= k}

\* The first k events of a list of events.
RECURSIVE Take(_, _)
Take(events, k) ==
    IF k = 0 \/ Len(events) = 0 THEN << >>
    ELSE LET b == Head(events)
             size == b.hi - b.lo + 1
         IN IF k < size THEN << [b EXCEPT !.hi = b.lo + k - 1] >>
            ELSE <<b>> \o Take(Tail(events), k - size)

\* The for loop over fetch_data(): every event is yielded as text and handed
\* to add_log_to_send; after the last one the generator computes the last
\* date. Either an enqueue raises, or the last-date computation raises, or
\* the loop ends and send_to_logzio is next.
Deliver(a, rich) ==
    /\ pc[a] = "deliver"
    /\ LET n == len(total_events[a])
           texts(k) == LET first == Take(total_events[a], k)
                       IN [i \in 1..Len(first) |-> JsonDumps(first[i])]
       IN \/ \E k \in FailPoints(n), e \in EnqueueErrors(rich) :
                /\ is_data_exist' = [is_data_exist EXCEPT ![a] = TRUE]
                /\ Finish(a, e, "enqueue", TRUE, current_data_last_date[a],
                          [cyc[a] EXCEPT !.yielded = texts(k), !.enqueued = k - 1])
                /\ UNCHANGED current_data_last_date
          \/ /\ is_data_exist' = [is_data_exist EXCEPT ![a] = n > 0]
             /\ LET c == [cyc[a] EXCEPT !.yielded = texts(n), !.enqueued = n]
                    r == get_last_date_in_data(total_events[a])
                IN IF n = 0
                   THEN /\ pc' = [pc EXCEPT ![a] = "flush"]
                        /\ cyc' = [cyc EXCEPT ![a] = c]
                        /\ UNCHANGED <<sigterm, apiVars, fetchVars>>
                   ELSE IF r.raised # NoExc
                   THEN /\ Finish(a, r.raised, "last_date", TRUE, current_data_last_date[a], c)
                        /\ UNCHANGED current_data_last_date
                   ELSE /\ current_data_last_date' =
                               [current_data_last_date EXCEPT ![a] = r.value]
                        /\ pc' = [pc EXCEPT ![a] = "flush"]
                        /\ cyc' = [cyc EXCEPT ![a] = c]
                        /\ UNCHANGED <<sigterm, filters, fetchVars>>
    /\ UNCHANGED mainVars
    /\ UNCHANGED <<otherVars, loop>>

\* send_to_logzio() and the rest of __send_data_to_logzio.
Flush(a, rich) ==
    /\ pc[a] = "flush"
    /\ \E e \in SinkErrors(rich) \cup {NoExc} :
        Finish(a, e, "flush", is_data_exist[a], current_data_last_date[a],
               [cyc[a] EXCEPT !.flushes = @ + 1])
    /\ UNCHANGED <<mainVars, is_data_exist, current_data_last_date>>
    /\ UNCHANGED <<otherVars, loop>>

\* ------------------------------------------------------ the scheduling loop

\* The loop without thread.join(): the wait runs, and may time out, while
\* the cycle is still in flight.
WaitTimeoutNoJoin(a) ==
    /\ pc[a] \in {"fetch", "deliver", "flush", "wait"}
    /\ ~event
    /\ pc' = [pc EXCEPT ![a] = "start"]
    /\ cyc' = [cyc EXCEPT ![a] = NewCycle(filters[a], current_data_last_date[a])]
    /\ UNCHANGED <<mainVars, sigterm, apiVars, fetchVars, is_data_exist>>
    /\ UNCHANGED <<otherVars, loop>>

\* The wait were it a plain sleep of the interval (time.sleep in place of
\* event.wait): it ends with the interval whether or not the event is set.
WaitTimeoutAfterSet(a) ==
    /\ pc[a] = "wait"
    /\ pc' = [pc EXCEPT ![a] = "start"]
    /\ cyc' = [cyc EXCEPT ![a] = NewCycle(filters[a], current_data_last_date[a])]
    /\ UNCHANGED <<mainVars, sigterm, apiVars, fetchVars, is_data_exist>>
    /\ UNCHANGED <<otherVars, loop>>

\* event.wait(timeout=time_interval) returned False: the interval elapsed
\* with the event not set.
WaitTimeout(a) ==
    /\ pc[a] = "wait"
    /\ ~event
    /\ pc' = [pc EXCEPT ![a] = "start"]
    /\ cyc' = [cyc EXCEPT ![a] = NewCycle(filters[a], current_data_last_date[a])]
    /\ UNCHANGED <<mainVars, sigterm, apiVars, fetchVars, is_data_exist>>
    /\ UNCHANGED <<otherVars, loop>>

\* event.wait returned True: the loop breaks and the thread ends.
WaitSet(a) ==
    /\ pc[a] = "wait"
    /\ event
    /\ pc' = [pc EXCEPT ![a] = "exited"]
    /\ UNCHANGED <<mainVars, sigterm, apiVars, fetchVars, is_data_exist, cyc>>
    /\ UNCHANGED <<otherVars, loop>>

\* ---------------------------------------------------------- the main thread

workerVars == <<pc, apiVars, fetchVars, is_data_exist, cyc>>

\* An operator sends SIGINT (Ctrl-C) or SIGTERM (kill, docker stop) to the
\* process while its main thread waits in sigwait.
ExternalSignal ==
    /\ mainPc = "sigwait"
    /\ ~sigterm
    /\ ~sigint
    /\ \/ sigint' = TRUE /\ UNCHANGED sigterm
       \/ sigterm' = TRUE /\ UNCHANGED sigint
    /\ UNCHANGED <<event, mainPc, joined, workerVars>>
    /\ UNCHANGED <<otherVars, loop>>

\* run(): signal.sigwait([SIGINT, SIGTERM]) accepts a pending signal and
\* returns. run() never blocks the two signals (no pthread_sigmask), so for
\* SIGTERM, whose disposition is the default one, this is one outcome of
\* three: see ProcessTerminated and SignalDiscarded. SIGINT, for which the
\* interpreter installs a handler, is accepted.
SigwaitReturn ==
    /\ mainPc = "sigwait"
    /\ \/ sigint /\ sigint' = FALSE /\ UNCHANGED sigterm
       \/ sigterm /\ sigterm' = FALSE /\ UNCHANGED sigint
    /\ mainPc' = "exit_gracefully"
    /\ UNCHANGED <<event, joined, workerVars>>
    /\ UNCHANGED <<otherVars, loop>>

\* The pending SIGTERM takes its default action: the signal is not blocked
\* and no handler is installed for it, whether the main thread waits in
\* sigwait (the call is undefined for signals that are not blocked) or is
\* already in __exit_gracefully. The process ends at once with all its
\* threads, wherever they are (Linux, CPython 3.11: exit status 143).
ProcessTerminated ==
    /\ sigterm
    /\ mainPc \notin {"done", "terminated"}
    /\ sigterm' = FALSE
    /\ mainPc' = "terminated"
    /\ pc' = [a \in Apis |-> "dead"]
    /\ UNCHANGED <<event, sigint, joined, apiVars, fetchVars, is_data_exist, cyc>>
    /\ UNCHANGED <<otherVars, loop>>

\* The pending SIGTERM is dropped: the process is the init process of its
\* pid namespace (the entry point of a container), for which a signal with
\* the default disposition is ignored. sigwait does not return.
SignalDiscarded ==
    /\ sigterm
    /\ mainPc \notin {"done", "terminated"}
    /\ sigterm' = FALSE
    /\ UNCHANGED <<mainVars, workerVars>>
    /\ UNCHANGED <<otherVars, loop>>

\* __exit_gracefully: self.event.set()
SetEvent ==
    /\ mainPc = "exit_gracefully"
    /\ event' = TRUE
    /\ mainPc' = "join"
    /\ loop' = [a \in Apis |->
                   [loop[a] EXCEPT !.atSet = IF pc[a] # "start" THEN "busy"
                                             ELSE IF loop[a].ran THEN "start" ELSE "unstarted"]]
    /\ UNCHANGED <<joined, sigterm, sigint, workerVars>>
    /\ UNCHANGED otherVars

\* __exit_gracefully: thread.join() of the next thread returns once that
\* scheduling loop has ended; after the last one the routine returns.
JoinThread ==
    /\ mainPc = "join"
    /\ joined < Len(threads)
    /\ pc[threads[joined + 1]] = "exited"
    /\ joined' = joined + 1
    /\ mainPc' = IF joined + 1 = Len(threads) THEN "done" ELSE "join"
    /\ UNCHANGED <<event, sigterm, sigint, workerVars>>
    /\ UNCHANGED <<otherVars, loop>>

\* ------------------------------------------------------ the DockerHub source

\* The configured refresh_token_interval, in minutes (2 here; 30 when the
\* configuration gives none).
refresh_token_interval == 2

\* Tokens the login endpoint issues.
Tokens == { <<"t1">>, <<"t2">> }

\* What requests.post(login) can end with: a 2xx response whose JSON body has
\* a token or has none, a 2xx response whose body is no JSON, an error
\* status, or an exception raised without a response.
LoginResponses ==
    { [kind |-> "response", status |-> 200, json |-> TRUE, token |-> t] : t \in Tokens \cup {None} }
    \cup { [kind |-> "response", status |-> 200, json |-> FALSE, token |-> None] }
    \cup { [kind |-> "response", status |-> s, json |-> TRUE, token |-> None] : s \in {401, 500} }
    \cup { [kind |-> "exception", status |-> 0, json |-> FALSE, token |-> None] }

\* The cache test with <= for <.
TokenValidAtExpiry(token, expiry, t) == ~IsNone(token) /\ t <= expiry

\* if self._jwt_token and datetime.now(UTC) < self._token_expiry
TokenValid(token, expiry, t) == ~IsNone(token) /\ t < expiry

\* The try block of _get_jwt_token raised a RequestException: from
\* requests.post, from raise_for_status, or from response.json().
LoginRaised(r) == r.kind = "exception" \/ r.status >= 400 \/ ~r.json

\* f"Bearer {session_token}"
Bearer(session_token) ==
    <<"Bearer ", IF IsNone(session_token) THEN "None" ELSE session_token[1]>>

\* send_request calls _get_jwt_token: with a valid cached token it returns
\* the token and the header is set; otherwise the login request goes out.
SendRequestStart ==
    /\ tok.pc = "idle"
    /\ LET call == NewCall(now, jwt_token, token_expiry)
       IN IF TokenValid(jwt_token, token_expiry, now)
          THEN /\ tok' = [call EXCEPT !.outcome = "cached", !.ret = jwt_token]
               /\ headers' = Bearer(jwt_token)
          ELSE /\ tok' = [call EXCEPT !.pc = "post", !.posted = TRUE]
               /\ UNCHANGED headers
    /\ UNCHANGED <<jwt_token, token_expiry, now, orchVars, obs, loop>>

\* The login request returns: on success the token and the expiry are
\* cached and the token is returned; on a RequestException the error is
\* logged and the function ends without a return value. send_request then
\* sets the header from what it got.
PostReturns ==
    /\ tok.pc = "post"
    /\ \E r \in LoginResponses :
        IF LoginRaised(r)
        THEN /\ tok' = [tok EXCEPT !.pc = "idle", !.outcome = "failed", !.ret = None,
                                    !.respNow = now]
             /\ headers' = Bearer(None)
             /\ UNCHANGED <<jwt_token, token_expiry>>
        ELSE /\ jwt_token' = r.token
             /\ token_expiry' = now + refresh_token_interval
             /\ tok' = [tok EXCEPT !.pc = "idle", !.outcome = "refreshed", !.ret = r.token,
                                    !.respNow = now]
             /\ headers' = Bearer(r.token)
    /\ UNCHANGED <<now, orchVars, obs, loop>>

\* A minute passes.
Tick ==
    /\ now < MaxNow
    /\ now' = now + 1
    /\ UNCHANGED <<jwt_token, token_expiry, headers, tok, orchVars, obs, loop>>

\* ------------------------------------------------- a client of the AuthApi

\* The filter lists of the source the client calls: the configured ones, and
\* the start-date filter before another filter.
ClientFilters ==
    ConfiguredFilters
    \cup { << ApiFilter(start_date_name, ReplaceBlank(Str(DateTime(1, 0, 0, 0)))),
              ApiFilter("limit", <<"100">>) >> }

\* for _ in api.fetch_data(): pass -- the upstream answering the one request
\* with a last page, an error status or an exception. The last date is
\* stored only when events were fetched and each has a date.
ClientFetch(a) ==
    /\ \E r \in Responses(a, build_api_url(a, filters[a]), 0, SmallPages(1), TRUE) :
        LET d == get_data_from_api(r)
            l == get_last_date_in_data(d.events)
            stored == d.raised = NoExc /\ d.events_num > 0 /\ l.raised = NoExc
        IN /\ IsNone(d.next_url)
           /\ current_data_last_date' =
                  IF stored THEN [current_data_last_date EXCEPT ![a] = l.value]
                  ELSE current_data_last_date
           /\ obs' = [obs EXCEPT !.op = "fetch", !.ret = None,
                                 !.raised = d.raised # NoExc
                                            \/ (d.events_num > 0 /\ l.raised # NoExc),
                                 !.n = IF stored /\ l.value # current_data_last_date[a]
                                       THEN 0 ELSE @]
    /\ UNCHANGED <<event, sigterm, sigint, mainPc, joined, pc, filters, api_url,
                   total_events, total_events_num, is_data_exist, cyc, tokenVars, loop>>

\* api.update_start_date_filter(): with no last date stored, parser.parse
\* raises and nothing changes.
CallUpdate(a) ==
    /\ IF IsNone(current_data_last_date[a])
       THEN /\ obs' = [obs EXCEPT !.op = "update", !.ret = None, !.raised = TRUE]
            /\ UNCHANGED filters
       ELSE LET fs == update_start_date_filter(filters[a], current_data_last_date[a])
            IN /\ filters' = [filters EXCEPT ![a] = fs]
               /\ obs' = [op |-> "update", ret |-> None, raised |-> FALSE,
                          n |-> IF obs.n = 0 THEN 1 ELSE 2,
                          upd |-> fs, prevUpd |-> obs.upd]
    /\ UNCHANGED <<event, sigterm, sigint, mainPc, joined, pc, current_data_last_date,
                   api_url, total_events, total_events_num, is_data_exist, cyc, tokenVars, loop>>

\* api.get_last_start_date()
CallGetLast(a) ==
    /\ obs' = [obs EXCEPT !.op = "get", !.ret = get_last_start_date(filters[a]),
                          !.raised = FALSE]
    /\ UNCHANGED <<orchVars, tokenVars, loop>>

\* ------------------------------------------------------------ specifications

Cycle(a, rich) ==
    \/ StartCycle(a)
    \/ FetchPage(a, rich)
    \/ Deliver(a, rich)
    \/ Flush(a, rich)

\* The orchestrator with all its sources.
Next ==
    \/ ExternalSignal
    \/ SigwaitReturn
    \/ ProcessTerminated
    \/ SignalDiscarded
    \/ SetEvent
    \/ JoinThread
    \/ \E a \in Apis : Cycle(a, FALSE) \/ WaitTimeout(a) \/ WaitSet(a)

Spec == Init /\ [][Next]_vars

\* One source polled over and over, the upstream serving pages of every
\* size, the large ones included; no shutdown is requested.
FetchNext == Cycle(threads[1], TRUE) \/ WaitTimeout(threads[1])

\* The polled source with any of the configured filter lists.
FetchInit ==
    InitWith({f \in [Apis -> ConfiguredFilters] :
                \A a \in Apis \ {threads[1]} : f[a] = << >>})

FetchSpec == FetchInit /\ [][FetchNext]_vars

\* A cycle of source a is in flight.
InCycle(a) == pc[a] \in {"fetch", "deliver", "flush"}

\* The threads are scheduled and the interval timer runs: the main thread's
\* steps, the start of a cycle and the end of a wait are eventually taken
\* when they stay possible. Nothing is assumed of the operator
\* (ExternalSignal) or of what the upstream and the sink answer.
Fairness ==
    /\ WF_vars(SigwaitReturn)
    /\ WF_vars(SetEvent)
    /\ WF_vars(JoinThread)
    /\ \A a \in Apis :
        /\ WF_vars(StartCycle(a))
        /\ WF_vars(WaitTimeout(a))
        /\ WF_vars(WaitSet(a))

\* The orchestrator with its threads scheduled and every cycle in flight
\* coming to an end (the upstream does not serve linked pages for ever and
\* the requests return).
LiveSpec == Spec /\ Fairness /\ \A a \in Apis : []<>(~InCycle(a))

\* The DockerHub source: requests are sent at any time while the clock runs.
DockerNext == SendRequestStart \/ PostReturns \/ Tick

DockerSpec == Init /\ [][DockerNext]_vars

\* An AuthApi with any of the filter lists, called by a client in any order.
ClientInit ==
    InitWith({f \in [Apis -> ClientFilters] :
                \A a \in Apis \ {threads[1]} : f[a] = << >>})

ClientNext ==
    \/ ClientFetch(threads[1])
    \/ CallUpdate(threads[1])
    \/ CallGetLast(threads[1])

ClientSpec == ClientInit /\ [][ClientNext]_vars

FetchLiveSpec ==
    FetchSpec /\ WF_vars(Cycle(threads[1], TRUE)) /\ WF_vars(WaitTimeout(threads[1]))

\* ------------------------------------------------------------------- claims

\* The cycle of source a has ended (its loop waits or has ended).
CycleOver(a) == pc[a] \in {"wait", "exited"}

\* The events of the texts a cycle yielded, and their number.
YieldedEvents(c) == [i \in 1..Len(c.yielded) |-> c.yielded[i][2]]

YieldedCount(c) == len(YieldedEvents(c))

\* The sink raised in the cycle.
SinkRaised(c) == c.by \in {"enqueue", "flush"}

FatalSinkError(e) ==
    \/ e.type = "HTTPError" /\ e.status = 401
    \/ e.type = "InvalidURL"
    \/ e.type = "InvalidSchema"

\* C1: the cursor of a source is modified, and update_start_date_filter is
\* called, at the end of a cycle only if every event fetch_data yielded in
\* that cycle was enqueued and the flush of that cycle returned without
\* raising.
C1_CursorOnlyAfterDelivery ==
    \A a \in Apis :
        (CycleOver(a) /\ (cyc[a].updated \/ filters[a] # cyc[a].filters0))
            => /\ ~SinkRaised(cyc[a])
               /\ cyc[a].enqueued = YieldedCount(cyc[a])
               /\ cyc[a].flushes = 1

\* C2: when the sink raises HTTP 401, an invalid-URL or an invalid-scheme
\* error in a cycle, termination of the process is requested (the signal is
\* sent) and the cursor is not advanced in that cycle.
C2_FatalSinkErrorTerminates ==
    \A a \in Apis :
        (CycleOver(a) /\ SinkRaised(cyc[a]) /\ FatalSinkError(cyc[a].raised))
            => /\ cyc[a].killed
               /\ sigterm
               /\ ~cyc[a].updated
               /\ filters[a] = cyc[a].filters0

C2_Witness ==
    \E a \in Apis :
        /\ pc[a] = "wait"
        /\ cyc[a].by = "flush"
        /\ cyc[a].raised = Exc("HTTPError", 401)
        /\ YieldedCount(cyc[a]) > 0
        /\ cyc[a].killed

AllExited == \A a \in Apis : pc[a] = "exited"

\* C3: after a fatal termination request in any source's cycle the shutdown
\* signal is eventually set and every scheduling loop eventually ends
\* (LiveSpec: the cycles in flight end); and once the signal is set a waiting
\* worker does not start another cycle: its wait ends the loop (or the
\* process ends).
C3_FatalStopsAllSources ==
    /\ (\E a \in Apis : cyc[a].killed) ~> (event /\ AllExited)
    /\ [][\A a \in Apis :
            (pc[a] = "wait" /\ event) => pc'[a] \in {"wait", "exited", "dead"}]_vars

\* C4: on a termination request the shutdown routine sets the signal before
\* it joins and returns only after every scheduling loop has ended; a cycle
\* in flight is never cut short (from inside a cycle a worker only moves on
\* within the cycle or to its wait); and the routine returns, every loop
\* having ended (LiveSpec: the cycles in flight end).
C4_GracefulShutdown ==
    /\ [](mainPc \in {"join", "done"} => event)
    /\ [](mainPc = "done" => AllExited)
    /\ [][\A a \in Apis : InCycle(a) => pc'[a] \in {"fetch", "deliver", "flush", "wait"}]_vars
    /\ (sigint \/ sigterm) ~> (mainPc = "done" /\ AllExited)

\* C5: a sink HTTP error with a status other than 401 is transient: no
\* termination is requested, the cursor is not advanced in that cycle, and
\* the loop goes on to its wait.
C5_SinkHttpErrorIsTransient ==
    \A a \in Apis :
        (CycleOver(a) /\ SinkRaised(cyc[a])
            /\ cyc[a].raised.type = "HTTPError" /\ cyc[a].raised.status # 401)
            => /\ ~cyc[a].killed
               /\ ~cyc[a].updated
               /\ filters[a] = cyc[a].filters0

\* C6: an error status of the source API ends the cycle without a
\* termination request and without a cursor update, whatever the status;
\* 400 and 401 are raised as ApiError; and the source is polled again on the
\* next interval (the wait can time out into the next cycle).
C6_SourceErrorIsTransient ==
    \A a \in Apis :
        (pc[a] = "wait" /\ cyc[a].by = "fetch" /\ cyc[a].status >= 400)
            => /\ cyc[a].status \in {400, 401} => cyc[a].raised = Exc("ApiError", 0)
               /\ ~cyc[a].killed
               /\ ~cyc[a].updated
               /\ filters[a] = cyc[a].filters0
               /\ ~event => ENABLED WaitTimeout(a)

C6_Witness ==
    \E a \in Apis :
        /\ pc[a] = "wait"
        /\ cyc[a].by = "fetch"
        /\ cyc[a].status = 401
        /\ Len(cyc[a].pages) > 0

\* The number of events of the first k pages of a cycle.
RECURSIVE EventsUpTo(_, _)
EventsUpTo(pages, k) == IF k = 0 THEN 0 ELSE EventsUpTo(pages, k - 1) + len(pages[k])

\* The number of blocks of the first k pages.
RECURSIVE BlocksUpTo(_, _)
BlocksUpTo(pages, k) == IF k = 0 THEN 0 ELSE BlocksUpTo(pages, k - 1) + Len(pages[k])

\* The list holds the events of the pages, page after page, each page's
\* events in the page's order.
InPageOrder(events, pages) ==
    /\ Len(events) = BlocksUpTo(pages, Len(pages))
    /\ \A p \in 1..Len(pages) : \A i \in 1..Len(pages[p]) :
           events[BlocksUpTo(pages, p - 1) + i] = pages[p][i]

\* C7: over the pages c_1..c_N it fetched, fetch_data accumulates and yields
\* exactly sum(c_i) events, page after page and in each page's order; it
\* follows a next link only while fewer than 2500 events are accumulated,
\* and stops with a next link present only at 2500 or more, the page that
\* crosses the cap being kept whole.
C7_PagesInOrderUpToCap ==
    \A a \in Apis :
        LET pages == cyc[a].pages
            sum == EventsUpTo(pages, Len(pages))
        IN /\ pc[a] = "fetch" => total_events_num[a] < EventsCap
           /\ pc[a] \in {"fetch", "deliver"}
                => /\ InPageOrder(total_events[a], pages)
                   /\ total_events_num[a] = sum
           /\ (pc[a] = "deliver" /\ ~IsNone(cyc[a].lastNext))
                => /\ sum >= EventsCap
                   /\ EventsUpTo(pages, Len(pages) - 1) < EventsCap
           /\ pc[a] = "flush"
                => /\ InPageOrder(YieldedEvents(cyc[a]), pages)
                   /\ YieldedCount(cyc[a]) = sum
                   /\ \A i \in 1..Len(cyc[a].yielded) :
                          cyc[a].yielded[i] = JsonDumps(YieldedEvents(cyc[a])[i])

C7_Witness ==
    \E a \in Apis :
        /\ pc[a] = "flush"
        /\ ~IsNone(cyc[a].lastNext)
        /\ Len(cyc[a].pages) = 2
        /\ YieldedCount(cyc[a]) > EventsCap

\* C8: the page walk of one fetch_data call ends, whatever the upstream
\* serves.
C8_PageWalkEnds == \A a \in Apis : (pc[a] = "fetch") ~> (pc[a] # "fetch")

\* Seconds of a date-time since the start of the month.
ToSec(dt) == ((dt.day * 24 + dt.hh) * 60 + dt.mm) * 60 + dt.ss

\* urllib.parse.unquote
Unquote(s) ==
    [i \in 1..Len(s) |-> IF s[i] = "%3A" THEN ":" ELSE IF s[i] = "%20" THEN " " ELSE s[i]]

\* The greatest timestamp, in seconds, among events.
MaxSec(events) ==
    LET secs == {ToSec(Parse(events[i].ts)) : i \in 1..Len(events)}
    IN CHOOSE m \in secs : \A x \in secs : x <= m

\* A cycle that yielded events and was delivered: nothing was raised.
Delivered(a) ==
    /\ pc[a] = "wait"
    /\ cyc[a].by = "none"
    /\ YieldedCount(cyc[a]) > 0

\* C9: after a cycle that yielded at least one event and was delivered, the
\* cursor filter's value is the percent-encoded text, with a T separator, of
\* the greatest timestamp among the events yielded in that cycle plus one
\* second.
C9_CursorIsMaxPlusOneSecond ==
    \A a \in Apis :
        Delivered(a)
            => LET value == get_last_start_date(filters[a])
               IN /\ cyc[a].updated
                  /\ ~IsNone(value)
                  /\ value[2] = "T"
                  /\ \A i \in 1..Len(value) : value[i] \notin {":", " "}
                  /\ Parsable(Unquote(value))
                  /\ ToSec(Parse(Unquote(value))) = MaxSec(YieldedEvents(cyc[a])) + 1

C9_Witness ==
    \E a \in Apis :
        /\ Delivered(a)
        /\ Len(cyc[a].yielded) = 2
        /\ get_last_start_date(filters[a]) =
               <<"2024-01-02", "T", "00", "%3A", "00", "%3A", "00">>

\* C10: a cycle in which fetch_data yields no event leaves the filter list
\* as it was when the cycle started: no last date is computed and
\* update_start_date_filter is not called.
C10_EmptyCycleKeepsFilters ==
    \A a \in Apis :
        (CycleOver(a) /\ Len(cyc[a].yielded) = 0)
            => /\ filters[a] = cyc[a].filters0
               /\ current_data_last_date[a] = cyc[a].last0
               /\ ~cyc[a].updated

C10_Witness ==
    \E a \in Apis :
        /\ pc[a] = "wait"
        /\ Len(cyc[a].yielded) = 0
        /\ cyc[a].by = "flush"
        /\ cyc[a].raised = Exc("HTTPError", 500)
        /\ ~IsNone(cyc[a].last0)

\* A send_request call has returned from _get_jwt_token.
CallDone == tok.pc = "idle" /\ tok.outcome # "none"

\* C11: a call made while a non-empty token is cached and the clock is
\* before the expiry returns the cached token without a login request and
\* leaves the cache alone; a call made with no token or at or after the
\* expiry issues a login request; and after a successful refresh the cached
\* expiry is the instant of the refresh plus the configured interval.
C11_TokenReuse ==
    /\ (CallDone /\ ~IsNone(tok.tok0) /\ tok.callNow < tok.exp0)
          => /\ ~tok.posted
             /\ tok.ret = tok.tok0
             /\ jwt_token = tok.tok0
             /\ token_expiry = tok.exp0
    /\ (CallDone /\ (IsNone(tok.tok0) \/ tok.callNow >= tok.exp0)) => tok.posted
    /\ (CallDone /\ tok.outcome = "refreshed")
          => /\ token_expiry = tok.respNow + refresh_token_interval
             /\ jwt_token = tok.ret

\* The first call at the expiry of a cached token refreshed it, the
\* response coming a minute later.
C11_Witness ==
    /\ CallDone
    /\ tok.outcome = "refreshed"
    /\ tok.tok0 = <<"t1">>
    /\ tok.callNow = tok.exp0
    /\ tok.respNow = tok.callNow + 1
    /\ jwt_token = <<"t2">>

\* C12: when the refresh fails, _get_jwt_token returns the token that was
\* cached before the call, and the cached token and expiry are unchanged.
C12_FailedRefreshReturnsPrevious ==
    (CallDone /\ tok.outcome = "failed")
        => /\ tok.ret = tok.tok0
           /\ jwt_token = tok.tok0
           /\ token_expiry = tok.exp0

\* "k1=v1&k2=v2...": the filters from the i-th on, in list order, one "&"
\* between two filters and none after the last.
RECURSIVE QueryFrom(_, _)
QueryFrom(fs, i) ==
    IF i > Len(fs) THEN << >>
    ELSE <<fs[i].key, "=">> \o fs[i].value
         \o (IF i < Len(fs) THEN <<"&">> ELSE << >>) \o QueryFrom(fs, i + 1)

\* C13: the request url built at the start of a cycle is the base url, "?",
\* and the filters as "k1=v1&k2=v2..." in list order.
C13_UrlIsBaseQueryFilters ==
    \A a \in Apis :
        (pc[a] = "fetch" /\ cyc[a].status = 0)
            => api_url[a] = <<url(a), "?">> \o QueryFrom(cyc[a].filters0, 1)

\* The value of the start-date filter of a list (None: the list has none).
CursorOf(fs) ==
    IF \E i \in 1..Len(fs) : fs[i].key = start_date_name
    THEN fs[CHOOSE i \in 1..Len(fs) :
                /\ fs[i].key = start_date_name
                /\ \A j \in 1..(i - 1) : fs[j].key # start_date_name].value
    ELSE None

\* C14: a second update_start_date_filter call, no fetch_data having
\* computed a new last date since the first, leaves the filter list as the
\* first call left it; and get_last_start_date returns the value of the
\* start-date filter as it is (the configured one before any update) and
\* changes no state.
C14_SecondUpdateIsNoOp ==
    /\ []((obs.op = "update" /\ ~obs.raised /\ obs.n = 2) => obs.upd = obs.prevUpd)
    /\ [][(obs' # obs /\ obs'.op = "get")
            => /\ obs'.ret = CursorOf(filters[threads[1]])
               /\ UNCHANGED <<filters, current_data_last_date>>]_vars

\* The update was called twice on a list that had no start-date filter.
C14_Witness ==
    /\ obs.op = "update"
    /\ obs.n = 2
    /\ ~obs.raised
    /\ Len(obs.upd) = 1
    /\ obs.upd = filters[threads[1]]

\* C15: the cycles of a source never overlap. A cycle begins only at the
\* top of the loop, the loop comes back to its top only from the interval
\* wait timing out with the signal not set, the wait is reached only from
\* inside the cycle, in the order fetch, deliver, flush, and once the cycle
\* has ended nothing of it is left (the process ending apart).
C15_CyclesNeverOverlap ==
    /\ [][\A a \in Apis :
            /\ (~InCycle(a) /\ pc'[a] \in {"fetch", "deliver", "flush"})
                  => (pc[a] = "start" /\ pc'[a] = "fetch")
            /\ (pc[a] # "start" /\ pc'[a] = "start") => (pc[a] = "wait" /\ ~event)
            /\ (pc[a] # "wait" /\ pc'[a] = "wait") => InCycle(a)
            /\ pc[a] = "fetch" => pc'[a] \in {"fetch", "deliver", "wait", "dead"}
            /\ pc[a] = "deliver" => pc'[a] \in {"deliver", "flush", "wait", "dead"}
            /\ pc[a] = "flush" => pc'[a] \in {"flush", "wait", "dead"}]_vars
    /\ [](\A a \in Apis :
            pc[a] \in {"wait", "start", "exited"}
                => (IsNone(api_url[a]) /\ total_events[a] = << >> /\ total_events_num[a] = 0))

\* A later cycle of a source is in flight, an earlier one having delivered.
C15_Witness ==
    \E a \in Apis :
        /\ pc[a] = "deliver"
        /\ ~IsNone(cyc[a].last0)
        /\ filters[a] # << >>

\* C16: every cycle flushes the sink exactly once, after every enqueue of
\* the cycle, whether fetch_data raised, yielded nothing or yielded events.
C16_OneFlushPerCycle ==
    \A a \in Apis :
        /\ CycleOver(a) /\ (cyc[a].status # 0 \/ cyc[a].by # "none") => cyc[a].flushes = 1
        /\ cyc[a].flushes \in {0, 1}
        /\ cyc[a].flushes = 1 => cyc[a].enqueued = YieldedCount(cyc[a])

\* The cycle of source a ended with an error: an exception left the try
\* block, or the cursor update raised.
EndedWithError(a) == cyc[a].by # "none" \/ cyc[a].crashed

\* C17: an error raised in a cycle (in fetch, enqueue, flush or the cursor
\* update) does not end the scheduling loop: from inside a cycle the loop
\* only goes on within the cycle or to its wait, and after a cycle that
\* ended with an error the loop is in its wait, which, the signal not being
\* set, can time out into the next cycle.
C17_ErrorsDoNotStopTheLoop ==
    /\ [][\A a \in Apis : InCycle(a) => pc'[a] \in {"fetch", "deliver", "flush", "wait"}]_vars
    /\ [](\A a \in Apis :
            EndedWithError(a) => (pc[a] = "wait" /\ (~event => ENABLED WaitTimeout(a))))

\* The cursor update raised in a cycle (no last date to parse) and the loop
\* is in its wait.
C17_Witness ==
    \E a \in Apis :
        /\ cyc[a].crashed
        /\ cyc[a].by = "enqueue"
        /\ pc[a] = "wait"
        /\ ~event

\* Some event the upstream served in the cycle has nothing at the date path.
HasDateless(c) ==
    \E p \in 1..Len(c.pages) : \E i \in 1..Len(c.pages[p]) : IsNone(c.pages[p][i].ts)

\* The cycle of source a was aborted by a classified fetch error raised at
\* the given place: no termination request, no cursor update, the filters
\* and the stored last date as they were when the cycle started, and the
\* loop in its wait, from which the next cycle sends the same request.
AbortedByApiError(a, where) ==
    /\ pc[a] = "wait"
    /\ cyc[a].by = where
    /\ cyc[a].raised = Exc("ApiError", 0)
    /\ ~cyc[a].killed
    /\ ~cyc[a].updated
    /\ filters[a] = cyc[a].filters0
    /\ current_data_last_date[a] = cyc[a].last0
    /\ ~event => ENABLED WaitTimeout(a)

CursorHits(fs) == {i \in 1..Len(fs) : fs[i].key = start_date_name}

\* C19: the filter list of a source holds at most one filter with the
\* start-date key; a step keeps the key of every filter and the value of
\* every filter but the start-date one, appends at most one filter, with
\* the start-date key and only when the list had none; and a cursor update
\* leaves the new start date in the start-date filter.
C19_OverwriteOrAppendOnce ==
    /\ [](\A a \in Apis : Cardinality(CursorHits(filters[a])) <= 1)
    /\ [][\A a \in Apis :
            LET old == filters[a]
                new == filters'[a]
            IN /\ Len(new) \in {Len(old), Len(old) + 1}
               /\ \A i \in 1..Len(old) :
                     /\ new[i].key = old[i].key
                     /\ old[i].key # start_date_name => new[i].value = old[i].value
               /\ Len(new) = Len(old) + 1
                     => CursorHits(old) = {} /\ new[Len(new)].key = start_date_name
               /\ (InCycle(a) /\ ~InCycle(a)' /\ cyc'[a].updated /\ ~cyc'[a].crashed)
                     => /\ CursorHits(new) # {}
                        /\ get_last_start_date(new)
                              = get_new_start_date(current_data_last_date'[a])]_vars

\* The cursor of a list with another filter before it was overwritten, the
\* other filter is as configured.
C19_Witness ==
    \E a \in Apis :
        /\ cyc[a].updated /\ ~cyc[a].crashed /\ pc[a] = "wait"
        /\ Len(cyc[a].filters0) = 2
        /\ filters[a][1] = ApiFilter("limit", <<"100">>)
        /\ filters[a][2].key = start_date_name
        /\ filters[a][2].value # cyc[a].filters0[2].value

\* C20: a cycle that called update_start_date_filter ran the generator of
\* fetch_data to its end (no enqueue stopped the iteration, every yielded
\* event was enqueued), so the last date is the one of this cycle's events,
\* and the update did not fail on a missing last date.
C20_UpdateUsesThisCyclesLastDate ==
    \A a \in Apis :
        cyc[a].updated =>
            /\ cyc[a].by # "enqueue"
            /\ Len(cyc[a].yielded) = cyc[a].enqueued
            /\ ~cyc[a].crashed

\* C21: a loop starts at most one cycle with the event set, and only when
\* the event was set after its wait had timed out or before its thread
\* started the first cycle; with the event set a wait cannot time out and
\* ends the loop; a loop at its start can start the cycle whether or not the
\* event is set, and no loop ends without having started a cycle.
C21_AtMostOneCycleAfterSet ==
    /\ [](\A a \in Apis :
            /\ loop[a].afterSet <= 1
            /\ loop[a].afterSet = 1 => loop[a].atSet \in {"start", "unstarted"}
            /\ (~event) => loop[a].afterSet = 0
            /\ (event /\ pc[a] = "wait") => (~ENABLED WaitTimeout(a) /\ ENABLED WaitSet(a))
            /\ pc[a] = "start" => ENABLED StartCycle(a)
            /\ pc[a] = "exited" => (event /\ loop[a].ran))
    /\ [][\A a \in Apis :
            /\ (event /\ pc[a] = "wait") => pc'[a] \in {"wait", "exited", "dead"}
            /\ pc[a] = "exited" => pc'[a] \in {"exited", "dead"}]_vars

\* Both cases of the further cycle: one loop's wait had timed out when the
\* event was set, the other loop's thread had not started its first cycle;
\* each ran one cycle with the event set and ended at its wait.
C21_Witness ==
    \E a, b \in Apis :
        /\ loop[a].atSet = "start" /\ loop[a].afterSet = 1 /\ pc[a] = "exited"
        /\ loop[b].atSet = "unstarted" /\ loop[b].afterSet = 1 /\ pc[b] = "exited"

====
